---- MODULE Spec2Model ----
(***************************************************************************)
(* Model of BitmapIndex (src/lib.rs): a HashMap<String, Vec<u32>> with     *)
(* insert / batch_insert and the queries get, list, list_keys,             *)
(* get_as_binary, and_operation, or_operation.                             *)
(*                                                                         *)
(* A u32 word is modelled as the set of the positions (0..31) of its set   *)
(* bits: TLC's integers are 32-bit signed and cannot hold 1 << 31.  The    *)
(* word operations the code uses (|, &, <<, trailing_zeros, != 0) are      *)
(* defined on that representation.  A Vec is a sequence; Rust's index i    *)
(* is the sequence's index i + 1.  A String produced by format! is a       *)
(* sequence of one-character strings.                                      *)
(***************************************************************************)
EXTENDS Integers, Sequences, FiniteSets, TLC

VARIABLES index, inserted, result

vars == <<index, inserted, result>>

\* ------------------------------------------------------------------ bounds
MaxWord == 1
MaxBatch == 2

\* ------------------------------------------------------------------ inputs
Keys == {"tem_pendencias", "is_admin"}

Ids == {0, 31} \cup {32 * w : w \in 1..MaxWord}

QueryIds == Ids \cup {1, 32 * (MaxWord + 1)}

\* batch_insert is called with every sequence of at most MaxBatch ids over a
\* low id and the highest id: both orders, duplicates, and the empty batch.
BatchIds == {31, 32 * MaxWord}

BatchInputs == UNION {[1..n -> BatchIds] : n \in 0..MaxBatch}

\* ------------------------------------------------------------- u32 words
WordBits == 32

Zero == {}

One == {0}

Shl(w, n) == {b + n : b \in {c \in w : c + n < WordBits}}

BitAnd(a, b) == a \cap b

BitOr(a, b) == a \cup b

trailing_zeros(w) ==
  IF w = Zero THEN WordBits ELSE CHOOSE b \in w : \A c \in w : b <= c

\* ------------------------------------------------------------ Vec helpers
RECURSIVE Repeat(_, _)
Repeat(v, n) == IF n <= 0 THEN <<>> ELSE <<v>> \o Repeat(v, n - 1)

\* resize that appends newLen elements instead of growing to newLen.
resize_appending(entry, newLen, v) ==
  IF newLen <= Len(entry) THEN SubSeq(entry, 1, newLen)
  ELSE entry \o Repeat(v, newLen)

resize(entry, newLen, v) ==
  IF newLen <= Len(entry) THEN SubSeq(entry, 1, newLen)
  ELSE entry \o Repeat(v, newLen - Len(entry))

\* ------------------------------------------------------- call outcomes
Ok(v) == [status |-> "ok", val |-> v]

KeyNotFound == "KeyNotFound"

IndexOutOfBounds == "IndexOutOfBounds"

Panic(kind) == [status |-> kind, val |-> <<>>]

\* ------------------------------------------------------------ BitmapIndex
new == [k \in {} |-> <<>>]

\* insert that shifts the mask by the word index instead of the bit index.
insert_shift_by_word(idx, key, id) ==
  LET entry0 == IF key \in DOMAIN idx THEN idx[key] ELSE <<>>
      entry1 == IF id \div 32 >= Len(entry0)
                THEN resize(entry0, id \div 32 + 1, Zero)
                ELSE entry0
      entry2 == [entry1 EXCEPT ![id \div 32 + 1] = BitOr(@, Shl(One, id \div 32))]
  IN [k \in DOMAIN idx \cup {key} |-> IF k = key THEN entry2 ELSE idx[k]]

insert(idx, key, id) ==
  LET entry0 == IF key \in DOMAIN idx THEN idx[key] ELSE <<>>
      entry1 == IF id \div 32 >= Len(entry0)
                THEN resize(entry0, id \div 32 + 1, Zero)
                ELSE entry0
      entry2 == [entry1 EXCEPT ![id \div 32 + 1] = BitOr(@, Shl(One, id % 32))]
  IN [k \in DOMAIN idx \cup {key} |-> IF k = key THEN entry2 ELSE idx[k]]

get(idx, key, id) ==
  IF key \in DOMAIN idx
  THEN LET entry == idx[key]
           word_index == id \div 32
       IN IF word_index < Len(entry)
          THEN LET mask == Shl(One, id % 32)
                   value == entry[word_index + 1]
                   masked_value == BitAnd(value, mask)
               IN masked_value # Zero
          ELSE FALSE
  ELSE FALSE

\* The range 0..32 of the inner loops, in iteration order.  An inner loop
\* "for j in 0..32 { if c(j) { result.push(e(j)) } }" appends e(j), in order,
\* for the j of the range that satisfy c: the loops below are written so.
BitRange == [n \in 1..32 |-> n - 1]

\* list's inner loop running 31 times instead of 32.
list_word_31(word, i, acc) ==
  LET hits == SelectSeq(SubSeq(BitRange, 1, 31),
                        LAMBDA n : BitAnd(word, Shl(One, n)) # Zero)
  IN acc \o [p \in 1..Len(hits) |-> i * 32 + trailing_zeros(Shl(One, hits[p]))]

\* The inner loop of list for word i: mask starts at 1 and is shifted left
\* once per iteration, so it is 1 << n in iteration n; every iteration whose
\* mask meets the word pushes i * 32 + mask.trailing_zeros().
list_word(word, i, acc) ==
  LET hits == SelectSeq(BitRange, LAMBDA n : BitAnd(word, Shl(One, n)) # Zero)
  IN acc \o [p \in 1..Len(hits) |-> i * 32 + trailing_zeros(Shl(One, hits[p]))]

RECURSIVE list_words(_, _, _)
list_words(entry, i, acc) ==
  IF i >= Len(entry) THEN acc
  ELSE list_words(entry, i + 1, list_word(entry[i + 1], i, acc))

list(idx, key) ==
  IF key \in DOMAIN idx THEN list_words(idx[key], 0, <<>>) ELSE <<>>

list_keys(idx, key) ==
  IF key \in DOMAIN idx THEN idx[key] ELSE <<>>

RECURSIVE batch_insert(_, _, _)
batch_insert(idx, key, ids) ==
  IF ids = <<>> THEN idx
  ELSE batch_insert(insert(idx, key, Head(ids)), key, Tail(ids))

\* format!("{:032b}", word): the binary digits of the value, most
\* significant first, left-padded with '0' to a width of 32.
bit_length(w) ==
  IF w = Zero THEN 0 ELSE 1 + CHOOSE b \in w : \A c \in w : c <= b

binary_digits(w) ==
  IF w = Zero THEN <<"0">>
  ELSE [p \in 1..bit_length(w) |->
          IF (bit_length(w) - p) \in w THEN "1" ELSE "0"]

pad_zero(s, width) ==
  IF Len(s) >= width THEN s ELSE Repeat("0", width - Len(s)) \o s

\* format!("{:b}", word): no padding.
format_b(w) == binary_digits(w)

format_032b(w) == pad_zero(binary_digits(w), 32)

\* get_as_binary with unwrap_or(&Vec::new()) in place of unwrap().
get_as_binary_or_empty(idx, key) ==
  IF key \notin DOMAIN idx THEN Ok(<<>>)
  ELSE Ok([i \in 1..Len(idx[key]) |-> format_032b(idx[key][i])])

get_as_binary(idx, key) ==
  IF key \notin DOMAIN idx THEN Panic(KeyNotFound)
  ELSE Ok([i \in 1..Len(idx[key]) |-> format_032b(idx[key][i])])

\* and_operation's inner loop without the test of entry2's bit.
and_word_first_only(word, entry2, i, acc) ==
  IF i >= Len(entry2)
  THEN IF \E p \in 1..Len(BitRange) : BitAnd(word, Shl(One, BitRange[p])) # Zero
       THEN Panic(IndexOutOfBounds)
       ELSE Ok(acc)
  ELSE LET hits == SelectSeq(BitRange, LAMBDA j : BitAnd(word, Shl(One, j)) # Zero)
       IN Ok(acc \o [p \in 1..Len(hits) |-> i * 32 + hits[p]])

\* The inner loop of and_operation for word i: entry2[i] is read only when
\* bit j of entry1's word is set (&& short-circuits), and that read panics
\* when i is not an index of entry2.
and_word(word, entry2, i, acc) ==
  IF i >= Len(entry2)
  THEN IF \E p \in 1..Len(BitRange) : BitAnd(word, Shl(One, BitRange[p])) # Zero
       THEN Panic(IndexOutOfBounds)
       ELSE Ok(acc)
  ELSE LET hits == SelectSeq(BitRange,
                             LAMBDA j : /\ BitAnd(word, Shl(One, j)) # Zero
                                        /\ BitAnd(entry2[i + 1], Shl(One, j)) # Zero)
       IN Ok(acc \o [p \in 1..Len(hits) |-> i * 32 + hits[p]])

\* and_operation's outer loop over entry1.iter().zip(entry2): it stops at the
\* shorter of the two.
RECURSIVE and_words_zip(_, _, _, _)
and_words_zip(entry1, entry2, i, acc) ==
  IF i >= Len(entry1) \/ i >= Len(entry2) THEN Ok(acc)
  ELSE LET r == and_word(entry1[i + 1], entry2, i, acc)
       IN IF r.status # "ok" THEN r
          ELSE and_words_zip(entry1, entry2, i + 1, r.val)

RECURSIVE and_words(_, _, _, _)
and_words(entry1, entry2, i, acc) ==
  IF i >= Len(entry1) THEN Ok(acc)
  ELSE LET r == and_word(entry1[i + 1], entry2, i, acc)
       IN IF r.status # "ok" THEN r
          ELSE and_words(entry1, entry2, i + 1, r.val)

and_operation(idx, key1, key2) ==
  IF key1 \notin DOMAIN idx THEN Panic(KeyNotFound)
  ELSE IF key2 \notin DOMAIN idx THEN Panic(KeyNotFound)
  ELSE and_words(idx[key1], idx[key2], 0, <<>>)

vec_get_or_zero(entry, i) == IF i < Len(entry) THEN entry[i + 1] ELSE Zero

or_word(word1, word2, i, acc) ==
  LET hits == SelectSeq(BitRange,
                        LAMBDA j : \/ BitAnd(word1, Shl(One, j)) # Zero
                                   \/ BitAnd(word2, Shl(One, j)) # Zero)
  IN acc \o [p \in 1..Len(hits) |-> i * 32 + hits[p]]

RECURSIVE or_words(_, _, _, _, _)
or_words(entry1, entry2, len, i, acc) ==
  IF i >= len THEN acc
  ELSE or_words(entry1, entry2, len, i + 1,
                or_word(vec_get_or_zero(entry1, i), vec_get_or_zero(entry2, i),
                        i, acc))

\* or_operation iterating over entry1's length only.
or_operation_len1(idx, key1, key2) ==
  IF key1 \in DOMAIN idx /\ key2 \in DOMAIN idx
  THEN LET entry1 == idx[key1]
           entry2 == idx[key2]
           len == Len(entry1)
       IN or_words(entry1, entry2, len, 0, <<>>)
  ELSE <<>>

or_operation(idx, key1, key2) ==
  IF key1 \in DOMAIN idx /\ key2 \in DOMAIN idx
  THEN LET entry1 == idx[key1]
           entry2 == idx[key2]
           len == IF Len(entry1) >= Len(entry2) THEN Len(entry1) ELSE Len(entry2)
       IN or_words(entry1, entry2, len, 0, <<>>)
  ELSE <<>>

\* ------------------------------------------------------------ the machine
Call(op, key1, key2, id, ids, out) ==
  [op |-> op, key1 |-> key1, key2 |-> key2, id |-> id, ids |-> ids, out |-> out]

Init ==
  /\ index = new
  /\ inserted = [k \in Keys |-> {}]
  /\ result = Call("new", "", "", 0, <<>>, Ok(<<>>))

Insert(key, id) ==
  /\ index' = insert(index, key, id)
  /\ inserted' = [inserted EXCEPT ![key] = @ \cup {id}]
  /\ result' = Call("insert", key, "", id, <<>>, Ok(<<>>))

BatchInsert(key, ids) ==
  /\ index' = batch_insert(index, key, ids)
  /\ inserted' = [inserted EXCEPT ![key] = @ \cup {ids[n] : n \in 1..Len(ids)}]
  /\ result' = Call("batch_insert", key, "", 0, ids, Ok(<<>>))

\* get built on entry(key).or_insert(Vec::new()): a read that creates the key.
Get_creating(key, id) ==
  /\ result' = Call("get", key, "", id, <<>>, Ok(get(index, key, id)))
  /\ index' = [k \in DOMAIN index \cup {key} |->
                 IF k \in DOMAIN index THEN index[k] ELSE <<>>]
  /\ UNCHANGED inserted

Get(key, id) ==
  /\ result' = Call("get", key, "", id, <<>>, Ok(get(index, key, id)))
  /\ UNCHANGED <<index, inserted>>

List(key) ==
  /\ result' = Call("list", key, "", 0, <<>>, Ok(list(index, key)))
  /\ UNCHANGED <<index, inserted>>

ListKeys(key) ==
  /\ result' = Call("list_keys", key, "", 0, <<>>, Ok(list_keys(index, key)))
  /\ UNCHANGED <<index, inserted>>

GetAsBinary(key) ==
  /\ result' = Call("get_as_binary", key, "", 0, <<>>, get_as_binary(index, key))
  /\ UNCHANGED <<index, inserted>>

AndOperation(key1, key2) ==
  /\ result' = Call("and_operation", key1, key2, 0, <<>>,
                    and_operation(index, key1, key2))
  /\ UNCHANGED <<index, inserted>>

OrOperation(key1, key2) ==
  /\ result' = Call("or_operation", key1, key2, 0, <<>>,
                    Ok(or_operation(index, key1, key2)))
  /\ UNCHANGED <<index, inserted>>

Next ==
  \/ \E key \in Keys, id \in Ids : Insert(key, id)
  \/ \E key \in Keys, ids \in BatchInputs : BatchInsert(key, ids)
  \/ \E key \in Keys, id \in QueryIds : Get(key, id)
  \/ \E key \in Keys : List(key)
  \/ \E key \in Keys : ListKeys(key)
  \/ \E key \in Keys : GetAsBinary(key)
  \/ \E key1 \in Keys, key2 \in Keys : AndOperation(key1, key2)
  \/ \E key1 \in Keys, key2 \in Keys : OrOperation(key1, key2)

Spec == Init /\ [][Next]_vars

\* ------------------------------------------------------------ vocabulary
Present(k) == k \in DOMAIN index

NeverInserted(k) == inserted[k] = {}

\* The ids a word sequence holds: bit j of word i stands for id i * 32 + j.
IdsOfBitset(entry) ==
  UNION {{(i - 1) * 32 + j : j \in entry[i]} : i \in 1..Len(entry)}

Elements(s) == {s[p] : p \in 1..Len(s)}

StrictlyAscending(s) == \A p \in 1..Len(s), q \in 1..Len(s) : p < q => s[p] < s[q]

MaxOf(S) == CHOOSE m \in S : \A x \in S : x <= m

Returned == result.out.status = "ok"

\* The entry of key k as an observer sees it: absent, or its word sequence.
EntryOf(idx, k) == IF k \in DOMAIN idx THEN <<"present", idx[k]>> ELSE <<"absent">>

\* ------------------------------------------------------------------ claims

\* C1: whatever inserts and batch inserts came before, list(k) returns a
\* strictly ascending sequence (hence without duplicates) whose elements are
\* exactly the ids ever inserted for k; it is empty for a key never inserted
\* into.
C1_ListIsInsertedAscending ==
  result.op = "list" =>
    /\ Returned
    /\ StrictlyAscending(result.out.val)
    /\ Elements(result.out.val) = inserted[result.key1]
    /\ Len(result.out.val) = Cardinality(inserted[result.key1])
    /\ (NeverInserted(result.key1) => result.out.val = <<>>)

C1_Witness ==
  /\ result.op = "list"
  /\ result.out.val = <<0, 31, 32>>

\* C2: get(k, n) returns true exactly when n was inserted for k earlier
\* (directly or by a batch); it returns false for an absent key and for an id
\* whose word index is at or beyond the current length of the bitset.
C2_GetIffInserted ==
  result.op = "get" =>
    /\ Returned
    /\ result.out.val = (result.id \in inserted[result.key1])
    /\ (~Present(result.key1) => result.out.val = FALSE)
    /\ (Present(result.key1) /\ result.id \div 32 >= Len(index[result.key1])
          => result.out.val = FALSE)

C2_Witness ==
  /\ result.op = "get"
  /\ result.id = 31
  /\ result.out.val = TRUE
  /\ Len(index[result.key1]) = 2

\* C3: with both keys present and key1's bitset no longer than key2's,
\* and(key1, key2) returns, strictly ascending, exactly the ids set in both
\* bitsets, and no id beyond key1's word range.
C3_AndIsIntersection ==
  (/\ result.op = "and_operation"
   /\ Present(result.key1) /\ Present(result.key2)
   /\ Len(index[result.key1]) <= Len(index[result.key2])) =>
    /\ Returned
    /\ StrictlyAscending(result.out.val)
    /\ Elements(result.out.val) =
         IdsOfBitset(index[result.key1]) \cap IdsOfBitset(index[result.key2])
    /\ \A x \in Elements(result.out.val) : x \div 32 < Len(index[result.key1])

C3_Witness ==
  /\ result.op = "and_operation"
  /\ Present(result.key1) /\ Present(result.key2)
  /\ Len(index[result.key1]) < Len(index[result.key2])
  /\ result.out.val = <<0, 31>>

\* C4: with both keys present, or(key1, key2) returns, strictly ascending and
\* each id once, exactly the ids set in at least one of the two bitsets,
\* whichever bitset is longer, and it never fails.
C4_OrIsUnion ==
  result.op = "or_operation" =>
    /\ Returned
    /\ (Present(result.key1) /\ Present(result.key2) =>
          /\ StrictlyAscending(result.out.val)
          /\ Elements(result.out.val) =
               IdsOfBitset(index[result.key1]) \cup IdsOfBitset(index[result.key2])
          /\ Len(result.out.val) = Cardinality(Elements(result.out.val)))

C4_Witness ==
  /\ result.op = "or_operation"
  /\ Present(result.key1) /\ Present(result.key2)
  /\ Len(index[result.key1]) < Len(index[result.key2])
  /\ inserted[result.key1] = {0, 31}
  /\ result.out.val = <<0, 31, 32>>

\* C5: for a key never inserted into, getAsBinary fails with KeyNotFound and
\* so does and with that key as either argument; or with that key as either
\* argument returns the empty sequence, list and listRawWords return the empty
\* sequence, and get returns false.
C5_NeverInsertedKey ==
  /\ (result.op = "get_as_binary" /\ NeverInserted(result.key1)
        => result.out.status = KeyNotFound)
  /\ (result.op = "and_operation"
        /\ (NeverInserted(result.key1) \/ NeverInserted(result.key2))
        => result.out.status = KeyNotFound)
  /\ (result.op = "or_operation"
        /\ (NeverInserted(result.key1) \/ NeverInserted(result.key2))
        => Returned /\ result.out.val = <<>>)
  /\ (result.op \in {"list", "list_keys"} /\ NeverInserted(result.key1)
        => Returned /\ result.out.val = <<>>)
  /\ (result.op = "get" /\ NeverInserted(result.key1)
        => Returned /\ result.out.val = FALSE)

C5_Witness ==
  /\ result.op = "or_operation"
  /\ NeverInserted(result.key1)
  /\ inserted[result.key2] = {0, 32}
  /\ result.out.val = <<>>

\* C6: an operation fails only with KeyNotFound, only if it is getAsBinary or
\* and, and only if a key it references was never inserted into; a call whose
\* referenced keys are all present returns a result.
C6_OnlyKeyNotFound ==
  ~Returned =>
    /\ result.out.status = KeyNotFound
    /\ \/ result.op = "get_as_binary" /\ NeverInserted(result.key1)
       \/ result.op = "and_operation"
            /\ (NeverInserted(result.key1) \/ NeverInserted(result.key2))

\* C7: for a present key, getAsBinary returns one string per word, in word
\* order, each of exactly 32 characters '0' or '1'; the character at position
\* p (0 = leftmost) of string i is '1' exactly when id i * 32 + (31 - p) is in
\* the key's set.
C7_BinaryMsbFirst ==
  result.op = "get_as_binary" /\ Present(result.key1) =>
    /\ Returned
    /\ Len(result.out.val) = Len(index[result.key1])
    /\ \A i \in 0..(Len(result.out.val) - 1) :
         /\ Len(result.out.val[i + 1]) = 32
         /\ \A p \in 0..31 :
              /\ result.out.val[i + 1][p + 1] \in {"0", "1"}
              /\ result.out.val[i + 1][p + 1] = "1"
                   <=> (i * 32 + (31 - p)) \in inserted[result.key1]

C7_Witness ==
  /\ result.op = "get_as_binary"
  /\ inserted[result.key1] = {31, 32}
  /\ Len(result.out.val) = 2
  /\ result.out.val[1][1] = "1"
  /\ result.out.val[2][32] = "1"

\* C8: with both keys present and key2's bitset strictly shorter than key1's,
\* and(key1, key2) does not return: it indexes key2's words out of bounds,
\* whatever the bits are, while and(key2, key1) in the same state returns.
C8_AndShorterSecondFails ==
  (/\ result.op = "and_operation"
   /\ Present(result.key1) /\ Present(result.key2)
   /\ Len(index[result.key2]) < Len(index[result.key1])) =>
    /\ result.out.status = IndexOutOfBounds
    /\ and_operation(index, result.key2, result.key1).status = "ok"

C8_Witness ==
  /\ result.op = "and_operation"
  /\ result.out.status = IndexOutOfBounds
  /\ inserted[result.key1] = {0, 32}
  /\ inserted[result.key2] = {0}

\* C9: a present key's bitset has floor(maxId / 32) + 1 words, maxId being the
\* largest id ever inserted for it (that is the length of listRawWords);
\* over any step the length never decreases and a present key stays present.
C9_LengthOfPresent ==
  \A k \in Keys : Present(k) =>
    /\ inserted[k] # {}
    /\ Len(list_keys(index, k)) = MaxOf(inserted[k]) \div 32 + 1

C9_NeverShrinks ==
  \A k \in Keys : Present(k) =>
    /\ k \in DOMAIN index'
    /\ Len(index'[k]) >= Len(index[k])

C9_LengthGrowsOnly == [] C9_LengthOfPresent /\ [][C9_NeverShrinks]_vars

C9_Witness ==
  /\ result.op = "insert"
  /\ result.id = 0
  /\ inserted[result.key1] = {0, 32}
  /\ Len(index[result.key1]) = 2

\* C10: the entry of a key k (its presence and its words) changes only in an
\* insert or batchInsert on k itself; an insert on another key and every
\* query, failing or not, leave it as it was and create no key.
C10_EntryChange ==
  \A k \in Keys :
    EntryOf(index', k) # EntryOf(index, k) =>
      /\ result'.op \in {"insert", "batch_insert"}
      /\ result'.key1 = k

C10_Frame == [][C10_EntryChange]_vars

C10_Witness ==
  /\ result.op = "get"
  /\ result.id = 32 * (MaxWord + 1)
  /\ Present(result.key1)
  /\ \E k \in Keys : ~Present(k)

====
